---- MODULE Spec2Model ----
(***************************************************************************)
(* Verification model of the asterdex-sdk client library.                  *)
(*                                                                         *)
(*  SpecConn   the stream connection state machine (AsterWebSocketClient)  *)
(*             of a caller that connects and disconnects: socket events,   *)
(*             the heartbeat and the reconnect timer.                      *)
(*  SpecBackoff  the same, with more than one reconnect attempt allowed.   *)
(*  SpecSub    the same client with subscribe / unsubscribe, the replies   *)
(*             of the remote side and the request timeouts.                *)
(*  SpecLimit  the same client with batches that reach MAX_SUBSCRIPTIONS.  *)
(*  SpecFrame  the same client receiving inbound frames: the replies to    *)
(*             its requests and the stream data routed to the callbacks.   *)
(*  SpecRL     RateLimiter under concurrent makeRequest() calls.           *)
(*  SpecRest   the requests made on one REST client: the rate limiter, the  *)
(*             auth headers and the signing before the transport.          *)
(*  SpecNonce  the nonces of one Web3SignatureAuth.                        *)
(*  SpecHttp   the retry loop of HttpClient.request.                       *)
(*  SpecValid  the static validation methods of Web3SignatureAuth.         *)
(*  SpecQuery  the canonical query string of SignatureAuth.                *)
(*  SpecWeb3   what a Web3-signed request signs and what it sends.         *)
(*                                                                         *)
(* Time is kept relative: every armed timer carries the milliseconds left  *)
(* until it is due, Advance lets time pass up to the next deadline, and a  *)
(* due timer fires before time passes again.                               *)
(*                                                                         *)
(* Stream names are grouped in batches: a batch is a list of pairwise      *)
(* distinct stream names that the caller always passes together, so the    *)
(* subscription Set is a union of batches and its size is the sum of the   *)
(* batch sizes.  This keeps MAX_SUBSCRIPTIONS at its real value.           *)
(***************************************************************************)
EXTENDS Integers, Sequences, FiniteSets, TLC

\* ---------------------------------------------------------------- constants
MAX_SUBSCRIPTIONS == 1024
PING_INTERVAL == 180000
PONG_TIMEOUT == 600000
RECONNECT_INTERVAL == 5000
DEFAULT_REQUEST_TIMEOUT == 10000
NORMAL_CLOSURE == 1000
MICROSECONDS_IN_MILLISECOND == 1000
BAD_REQUEST == 400
IM_A_TEAPOT == 418
TOO_MANY_REQUESTS == 429
INTERNAL_SERVER_ERROR == 500
MILLISECONDS_IN_SECOND == 1000
DEFAULT_RETRY_DELAY == 1000
DEFAULT_BACKOFF_MULTIPLIER == 2
ETHEREUM_ADDRESS_LENGTH == 40
PRIVATE_KEY_LENGTH == 64
DEFAULT_WEB3_RECV_WINDOW == 50000

\* ------------------------------------------------------------------- bounds
MaxCalls == 4          \* calls the caller makes on a client it never subscribes on
MaxSubCalls == 3       \* calls the caller makes on a client it subscribes on
BigBatch == 1023       \* number of stream names in the large batch
MaxAttemptsCfg == 1    \* largest configured maxReconnectAttempts
MaxTime == 30000       \* milliseconds the client is followed for
MaxClock == 5          \* milliseconds Date.now() is followed for
NumCallers == 2        \* concurrent makeRequest() calls
MaxRequestsCfg == 2    \* largest configured maxRequests
MaxWindowMs == 3       \* largest configured windowMs
MaxFrameCalls == 3     \* calls the caller makes on a client that receives frames
MaxId == 3             \* largest numeric id an inbound frame carries
MaxRestCallers == 1    \* concurrent requests on the REST client
MaxNonces == 3         \* nonces one signer generates
MaxRetryAfter == 2     \* largest number of seconds in a Retry-After header
MaxRetriesCfg == 3     \* largest configured maxRetries
Slack == 1             \* how far a run of hex characters is from a required length
MaxParams == 3         \* largest number of keys in a parameter mapping
MaxBackoffCalls == 2   \* calls the caller makes on a client that keeps reconnecting
MaxBackoffAttempts == 2  \* maxReconnectAttempts of that client
MaxLimitCalls == 3     \* calls the caller makes on a client it fills up

\* configured <<pingInterval, pongTimeout>>: the pong timeout longer than the
\* ping interval (as with the defaults, 180000 and 600000) and shorter
HeartbeatCfgs == {<<10000, 20000>>, <<20000, 10000>>}

Batches == {"a", "big"}

BatchSize(b) == IF b = "big" THEN BigBatch ELSE IF b = "pair" THEN 2 ELSE 1

RECURSIVE Size(_)
\* this.subscriptions.size / streamArray.length for a union of batches
Size(S) == IF S = {} THEN 0
           ELSE LET b == CHOOSE x \in S : TRUE IN BatchSize(b) + Size(S \ {b})

\* the stream lists the caller passes
StreamArrays == {{b} : b \in Batches}

\* the arrays of a caller whose large batch and batch of two stream names
\* together exceed MAX_SUBSCRIPTIONS
LimitArrays == {{"big"}, {"pair"}}

VARIABLES
  state,              \* this.state
  ws,                 \* this.ws: index into sockets, 0 = undefined
  subscriptions,      \* this.subscriptions
  requestId,          \* this.requestId
  reconnectAttempts,  \* this.reconnectAttempts
  config,             \* this.config
  sockets,            \* every socket the client created, with the remote side
  requests,           \* the correlated requests sent so far, by id
  timers,             \* the armed timers
  now,                \* milliseconds since the client was constructed
  calls               \* calls the caller will still make

wsVars == <<state, ws, subscriptions, requestId, reconnectAttempts, config,
            sockets, requests, timers, now, calls>>

VARIABLES
  dateNow,            \* Date.now(), in milliseconds since the first call
  limiter,            \* the RateLimiter: maxRequests, windowMs, requests
  callers,            \* the position of each concurrent makeRequest() call
  nonces,             \* the nonces one signer has generated, in call order
  http                \* one HttpClient.request call: its locals and history

VARIABLES
  eventHandlers,      \* this.eventHandlers: the callbacks that are set
  errorListeners,     \* whether an 'error' listener is attached (EventEmitter)
  frame,              \* the last inbound frame
  dispatched,         \* the callbacks and emits the last inbound frame caused
  escaped             \* whether its handler let an exception escape

inbound == <<eventHandlers, errorListeners, frame, dispatched, escaped>>

VARIABLES
  rest                \* the REST client: its credentials and whether it has
                      \* a rate limiter

VARIABLES
  auth                \* one call of a function of the auth module: its
                      \* arguments and what it returned

vars == <<wsVars, dateNow, limiter, callers, nonces, http, inbound, rest, auth>>

\* what the connection's calls, socket events and timers leave alone
notWS == <<dateNow, limiter, callers, nonces, http, inbound, rest, auth>>

\* the caller makes one of its calls
Call == calls > 0 /\ calls' = calls - 1

\* ------------------------------------------------------------------ timers
\* kind: "ping" (setInterval of startPingInterval), "pong" (setPongTimeout),
\* "reconnect" (scheduleReconnect), "request" (sendRequest).
\* held: the handle is still stored in the client's field (pingInterval,
\*       pongTimeout, reconnectTimeout; for a request timer: in the closure).
\* sock, q: for a pong timer, the socket the ping went to and the position of
\*       that ping among the unanswered pings of the socket (0 = answered).
\* req:  for a request timer, the request id.
\* delay: the milliseconds the timer was armed with.
Timer(kind, rem, sock, q, req) ==
  [kind |-> kind, rem |-> rem, held |-> TRUE, sock |-> sock, q |-> q,
   req |-> req, delay |-> rem]

\* a new handle is stored in the field: the previous one is overwritten
Orphan(T, kind) ==
  {IF t.kind = kind /\ t.held THEN [t EXCEPT !.held = FALSE] ELSE t : t \in T}

Due(T) == {t \in T : t.rem = 0}

MinRem(T) == CHOOSE m \in {t.rem : t \in T} : \A t \in T : m <= t.rem

clearPongTimeout(T) == {t \in T : ~(t.kind = "pong" /\ t.held)}

\* a clearTimers() that also cancels the request timeouts
clearTimers_all(T) == {}

\* clearTimers()
clearTimers(T) ==
  {t \in T : ~(t.kind \in {"ping", "pong", "reconnect"} /\ t.held)}

\* ----------------------------------------------------------------- sockets
\* st: "connecting", "open", "closing" (close frame sent), "aborted"
\*     (handshake aborted, error event to come), "dying" (error emitted or
\*     socket destroyed, close event to come), "closed".
\* replay: the connect() that created the socket was the reconnect timer's,
\*     whose then-callback replays the subscriptions.
\* unans: pings sent and not yet answered by a pong.
\* closeCode: the code passed to ws.close(), 0 if close() was not called.
\* subs: the streams the remote side has subscribed on this connection.
\* promise: the promise of the connect() that created the socket: "pending",
\*     "resolved", "rejected"; once the socket is closed, "pending" or
\*     "settled".
\* after: for a socket of the reconnect timer's connect(), the delay that
\*     timer was armed with; 0 for another socket and once it is closed.
NewSocket(replay) ==
  LET fired == {t \in Due(timers) : t.kind = "reconnect"}
  IN  [st |-> "connecting", replay |-> replay, unans |-> 0, closeCode |-> 0,
       subs |-> {}, promise |-> "pending",
       after |-> IF replay /\ fired # {}
                 THEN (CHOOSE t \in fired : TRUE).delay ELSE 0]

Config(p, m) ==
  [reconnect |-> TRUE, reconnectInterval |-> RECONNECT_INTERVAL,
   maxReconnectAttempts |-> m, pingInterval |-> p[1], pongTimeout |-> p[2]]

\* a REST client: whether an API key and a secret were passed to AuthManager,
\* whether FuturesAuthManager has its Web3 credentials, and whether rate
\* limiting is enabled
Rest(apiKey, apiSecret, web3, rateLimiting) ==
  [apiKey |-> apiKey, apiSecret |-> apiSecret, web3 |-> web3,
   rateLimiting |-> rateLimiting]

\* no REST client and no rate limiter in use
NoLimiter ==
  /\ limiter = [maxRequests |-> 0, windowMs |-> 0, requests |-> <<>>]
  /\ callers = <<>>
  /\ rest = Rest(FALSE, FALSE, FALSE, FALSE)

\* no function of the auth module has been called
NoCall == [fn |-> "none"]

\* no signer in use
NoSigner == nonces = <<>> /\ auth = NoCall

\* no HTTP request under way
NoRequest ==
  http = [maxRetries |-> 0, retryDelay |-> 0, backoffMultiplier |-> 0,
          attempt |-> 0, pc |-> "idle", outcomes |-> <<>>,
          lastError |-> "null", delay |-> 0]

\* an inbound frame: what JSON.parse makes of it (kind: "empty" for a blank
\* frame, "invalid" for one that does not parse, "null" for the JSON null,
\* "value" for any other JSON value), and the fields the handlers read:
\* typeof id and id, whether error is set, e, whether stream and data are
\* set, data.e, u ("absent", "zero" or "positive"), whether s, b and a are
\* all set, and whether data carries u, s, b and a
Frame(kind, idType, id, error, e, stream, data, dataE, u, sba, dataBook) ==
  [kind |-> kind, idType |-> idType, id |-> id, error |-> error, e |-> e,
   stream |-> stream, data |-> data, dataE |-> dataE, u |-> u, sba |-> sba,
   dataBook |-> dataBook]

\* a frame with no content
Blank(kind) ==
  Frame(kind, "undefined", 0, FALSE, "absent", FALSE, FALSE, "absent",
        "absent", FALSE, FALSE)

\* no frame has arrived
NoInbound ==
  /\ eventHandlers = {}
  /\ errorListeners = FALSE
  /\ frame = Blank("none")
  /\ dispatched = <<>>
  /\ escaped = FALSE

\* the fields of the stream client after construction, but for its config
InitWS ==
  /\ state = "CLOSED"
  /\ ws = 0
  /\ subscriptions = {}
  /\ requestId = 1
  /\ reconnectAttempts = 0
  /\ sockets = <<>>
  /\ requests = {}
  /\ timers = {}
  /\ now = 0

\* a stream client nobody calls
NoClient ==
  /\ InitWS
  /\ NoInbound
  /\ config = Config(<<PING_INTERVAL, PONG_TIMEOUT>>, 1)
  /\ calls = 0

InitConn ==
  /\ InitWS
  /\ config \in {Config(p, m) : p \in HeartbeatCfgs, m \in 1..MaxAttemptsCfg}
  /\ calls = MaxCalls
  /\ NoInbound
  /\ dateNow = 0
  /\ NoLimiter /\ NoSigner /\ NoRequest

\* a client that reconnects more than once
InitBackoff ==
  /\ InitWS
  /\ config \in {Config(p, MaxBackoffAttempts) : p \in HeartbeatCfgs}
  /\ calls = MaxBackoffCalls
  /\ NoInbound
  /\ dateNow = 0
  /\ NoLimiter /\ NoSigner /\ NoRequest

\* a client whose caller subscribes up to the limit
InitLimit ==
  /\ InitWS
  /\ config = Config(<<PING_INTERVAL, PONG_TIMEOUT>>, 1)
  /\ calls = MaxLimitCalls
  /\ NoInbound
  /\ dateNow = 0
  /\ NoLimiter /\ NoSigner /\ NoRequest

InitSub ==
  /\ InitWS
  /\ config = Config(<<PING_INTERVAL, PONG_TIMEOUT>>, 1)
  /\ calls = MaxSubCalls
  /\ NoInbound
  /\ dateNow = 0
  /\ NoLimiter /\ NoSigner /\ NoRequest

\* ---------------------------------------------------------------- connect
\* a connect() that returns early only when OPEN
ConnectBody_openOnly(replay) ==
  IF state = "OPEN"
  THEN UNCHANGED <<state, ws, sockets>>
  ELSE /\ state' = "CONNECTING"
       /\ sockets' = Append(sockets, NewSocket(replay))
       /\ ws' = Len(sockets) + 1

\* connect() returns at once, which resolves the promise of the async
\* function without a socket of its own
resolvesAtOnce == state \in {"OPEN", "CONNECTING"}

\* the body of connect(): the new socket, or nothing when OPEN / CONNECTING
ConnectBody(replay) ==
  IF state \in {"OPEN", "CONNECTING"}
  THEN UNCHANGED <<state, ws, sockets>>
  ELSE /\ state' = "CONNECTING"
       /\ sockets' = Append(sockets, NewSocket(replay))
       /\ ws' = Len(sockets) + 1

Connect ==
  /\ Call
  /\ UNCHANGED <<now, notWS>>
  /\ ConnectBody(FALSE)
  /\ UNCHANGED <<subscriptions, requestId, reconnectAttempts, config,
                 requests, timers>>

\* ------------------------------------------------- subscribe / sendRequest
\* a correlated request whose messageHandler is registered on a live socket
\* or whose promise is pending; sockSt is the status of this.ws at the call.
\* promise: the promise sendRequest returns.
\* sent: the frame left, the remote side has the request.
Request(method, S, sockSt) ==
  [id |-> requestId, method |-> method, streams |-> S, ws |-> ws,
   promise |-> "pending", sent |-> sockSt = "open"]

\* a subscribe() without the check of the subscription count
callError_noLimit(method, S, st) ==
  IF st # "OPEN" THEN "not connected" ELSE "none"

\* the error subscribe() / unsubscribe() throws before anything is sent,
\* "none" if it throws none: the check of the count in subscribe(), then
\* isConnected() in sendRequest
callError(method, S, st) ==
  IF method = "SUBSCRIBE" /\ Size(subscriptions) + Size(S) > MAX_SUBSCRIPTIONS
  THEN "max subscriptions"
  ELSE IF st # "OPEN" THEN "not connected"
  ELSE "none"

\* subscribe()/unsubscribe() up to the await: st and sockSt are this.state
\* and the status of this.ws at the call, T the timers armed at the call.
\* ws.send() throws on a socket that is still connecting, which rejects the
\* promise in the executor and leaves the timer armed.
SubscribeCall(method, S, st, sockSt, T) ==
  IF callError(method, S, st) # "none"
  THEN /\ timers' = T
       /\ UNCHANGED <<requestId, requests>>
  ELSE /\ requestId' = requestId + 1
       /\ requests' = IF sockSt = "connecting" THEN requests
                      ELSE requests \cup {Request(method, S, sockSt)}
       /\ timers' = T \cup {Timer("request", DEFAULT_REQUEST_TIMEOUT, 0, 0, requestId)}

SockSt(w) == IF w = 0 THEN "none" ELSE sockets[w].st

Subscribe(S) ==
  /\ Call
  /\ UNCHANGED <<now, notWS>>
  /\ SubscribeCall("SUBSCRIBE", S, state, SockSt(ws), timers)
  /\ UNCHANGED <<state, ws, subscriptions, reconnectAttempts, config, sockets>>

Unsubscribe(S) ==
  /\ Call
  /\ UNCHANGED <<now, notWS>>
  /\ SubscribeCall("UNSUBSCRIBE", S, state, SockSt(ws), timers)
  /\ UNCHANGED <<state, ws, subscriptions, reconnectAttempts, config, sockets>>

\* the then-callback of the reconnect timer's connect()
Replay(st, sockSt, T) ==
  IF Size(subscriptions) > 0
  THEN SubscribeCall("SUBSCRIBE", subscriptions, st, sockSt, T)
  ELSE timers' = T /\ UNCHANGED <<requestId, requests>>

\* ------------------------------------------------------------- disconnect
Disconnect ==
  /\ Call
  /\ UNCHANGED <<now, notWS>>
  /\ config' = [config EXCEPT !.reconnect = FALSE]
  /\ timers' = clearTimers(timers)
  /\ IF ws # 0 /\ state = "OPEN"
     THEN /\ state' = "CLOSING"
          /\ sockets' = [sockets EXCEPT ![ws] =
               IF @.st = "open"
               THEN [@ EXCEPT !.st = "closing", !.closeCode = NORMAL_CLOSURE]
               ELSE IF @.st = "connecting"
               THEN [@ EXCEPT !.st = "aborted", !.closeCode = NORMAL_CLOSURE]
               ELSE [@ EXCEPT !.closeCode = NORMAL_CLOSURE]]
     ELSE /\ state' = "CLOSED"
          /\ UNCHANGED sockets
  /\ UNCHANGED <<ws, subscriptions, requestId, reconnectAttempts, requests>>

\* ----------------------------------------------------------- socket events
\* ws.on('open'): OPEN, counter reset, heartbeat started, promise resolved
SockOpen(w) ==
  /\ UNCHANGED <<now, calls, notWS>>
  /\ sockets[w].st = "connecting"
  /\ state' = "OPEN"
  /\ reconnectAttempts' = 0
  /\ sockets' = [sockets EXCEPT ![w].st = "open", ![w].promise = "resolved"]
  /\ LET T == Orphan(timers, "ping")
              \cup {Timer("ping", config.pingInterval, 0, 0, 0)}
     IN IF sockets[w].replay
        THEN Replay("OPEN", IF ws = w THEN "open" ELSE SockSt(ws), T)
        ELSE timers' = T /\ UNCHANGED <<requestId, requests>>
  /\ UNCHANGED <<ws, subscriptions, config>>

\* the connect() promise after the error handler: reject(...) is called
\* only while this.state is CONNECTING
rejectOnError(promise) ==
  IF promise = "pending" /\ state = "CONNECTING" THEN "rejected" ELSE promise

\* ws.on('error'): handleError, and the connect() promise rejects while
\* CONNECTING; the socket emits close next
SockError(w) ==
  /\ UNCHANGED <<now, calls, notWS>>
  /\ sockets[w].st \in {"connecting", "open", "aborted"}
  /\ sockets' = [sockets EXCEPT ![w].st = "dying",
                                ![w].promise = rejectOnError(@)]
  /\ UNCHANGED <<state, ws, subscriptions, requestId, reconnectAttempts,
                 config, requests, timers>>

\* scheduleReconnect()
scheduleReconnect(T) ==
  Orphan(T, "reconnect") \cup {Timer("reconnect", config.reconnectInterval, 0, 0, 0)}

\* the condition with <= for <: one attempt more than configured
shouldReconnect_le ==
  config.reconnect /\ reconnectAttempts <= config.maxReconnectAttempts

\* the condition of handleClose for scheduling a reconnect
shouldReconnect ==
  config.reconnect /\ reconnectAttempts < config.maxReconnectAttempts

\* ws.on('close'): handleClose
SockClose(w) ==
  /\ UNCHANGED <<now, calls, notWS>>
  /\ sockets[w].st \in {"open", "closing", "dying"}
  /\ sockets' = [sockets EXCEPT ![w] =
       [@ EXCEPT !.st = "closed", !.unans = 0, !.replay = FALSE,
                 !.closeCode = 0, !.subs = {}, !.after = 0,
                 !.promise = IF @ = "pending" THEN "pending" ELSE "settled"]]
  /\ requests' = {r \in requests : r.ws = w => r.promise = "pending"}
  /\ state' = "CLOSED"
  /\ IF shouldReconnect
     THEN /\ reconnectAttempts' = reconnectAttempts + 1
          /\ timers' = scheduleReconnect(clearTimers(timers))
     ELSE /\ timers' = clearTimers(timers)
          /\ UNCHANGED reconnectAttempts
  /\ UNCHANGED <<ws, subscriptions, requestId, config>>

\* ws.on('pong'): clearPongTimeout; the pong answers the oldest unanswered
\* ping of the socket
SockPong(w) ==
  /\ UNCHANGED <<now, calls, notWS>>
  /\ sockets[w].st = "open"
  /\ sockets[w].unans > 0
  /\ sockets' = [sockets EXCEPT ![w].unans = @ - 1]
  /\ timers' = {IF t.kind = "pong" /\ t.sock = w /\ t.q > 0
                THEN [t EXCEPT !.q = @ - 1] ELSE t :
                  t \in clearPongTimeout(timers)}
  /\ UNCHANGED <<state, ws, subscriptions, requestId, reconnectAttempts,
                 config, requests>>

\* ------------------------------------------------------------ remote side
\* a messageHandler that takes every reply for its own
responseMatches_any(x, id) == TRUE

\* messageHandler of request x on a reply carrying id: response.id === id
responseMatches(x, id) == x.id = id

\* a messageHandler that resolves on every reply
resolves_any(x, ok) == x.promise = "pending"

\* messageHandler resolves the promise of x: the promise is still pending
\* and the reply carries no error
resolves(x, ok) == x.promise = "pending" /\ ok

\* the continuations of subscribe() / unsubscribe() for the calls in R
Continue(R) ==
  (subscriptions
     \cup UNION {x.streams : x \in {y \in R : y.method = "SUBSCRIBE"}})
    \ UNION {x.streams : x \in {y \in R : y.method = "UNSUBSCRIBE"}}

\* the messageHandlers registered on socket w run on a frame with this id:
\* those it matches clear their timer, unregister and settle, and then the
\* continuations of the calls they resolved run
messageHandlers(w, id, ok) ==
  LET hit == {x \in requests : x.ws = w /\ responseMatches(x, id)}
  IN /\ requests' = requests \ hit
     /\ timers' = {t \in timers :
                     ~(t.kind = "request" /\ t.req \in {x.id : x \in hit})}
     /\ subscriptions' = Continue({x \in hit : resolves(x, ok)})

\* the remote side handles request r and its reply arrives: ws.on('message')
\* runs every messageHandler registered on the socket and then the
\* continuation of the subscribe() / unsubscribe() it resolved;
\* handleMessage returns on the numeric id
ServerReply(r, ok) ==
  /\ UNCHANGED <<now, calls, notWS>>
  /\ r \in requests
  /\ r.sent
  /\ sockets[r.ws].st = "open"
  /\ sockets' = [sockets EXCEPT ![r.ws].subs =
       IF ~ok THEN @
       ELSE IF r.method = "SUBSCRIBE" THEN @ \cup r.streams
       ELSE @ \ r.streams]
  /\ messageHandlers(r.ws, r.id, ok)
  /\ UNCHANGED <<state, ws, requestId, reconnectAttempts, config>>

\* ------------------------------------------------------------ timer fires
\* the timeout callback of sendRequest; the messageHandler stays registered
RequestTimeout(t) ==
  /\ UNCHANGED <<now, calls, notWS>>
  /\ t \in Due(timers) /\ t.kind = "request"
  /\ timers' = timers \ {t}
  /\ requests' = {IF r.id = t.req THEN [r EXCEPT !.promise = "rejected"] ELSE r :
                    r \in {x \in requests :
                             x.id = t.req => x.sent /\ sockets[x.ws].st # "closed"}}
  /\ UNCHANGED <<state, ws, subscriptions, requestId, reconnectAttempts,
                 config, sockets>>

\* the interval callback of startPingInterval, with setPongTimeout
PingFire(t) ==
  /\ UNCHANGED <<now, calls, notWS>>
  /\ t \in Due(timers) /\ t.kind = "ping"
  /\ LET T == (timers \ {t}) \cup {[t EXCEPT !.rem = config.pingInterval]}
         sent == SockSt(ws) = "open"
     IN IF state = "OPEN"
        THEN /\ sockets' = IF sent THEN [sockets EXCEPT ![ws].unans = @ + 1]
                           ELSE sockets
             /\ timers' = Orphan(T, "pong") \cup
                  {Timer("pong", config.pongTimeout, IF sent THEN ws ELSE 0,
                         IF sent THEN sockets[ws].unans + 1 ELSE 1, 0)}
        ELSE /\ timers' = T
             /\ UNCHANGED sockets
  /\ UNCHANGED <<state, ws, subscriptions, requestId, reconnectAttempts,
                 config, requests>>

\* the timeout callback of setPongTimeout: this.ws?.terminate()
PongTimeoutFire(t) ==
  /\ UNCHANGED <<now, calls, notWS>>
  /\ t \in Due(timers) /\ t.kind = "pong"
  /\ timers' = timers \ {t}
  /\ sockets' = IF ws = 0 THEN sockets
                ELSE [sockets EXCEPT ![ws].st =
                        IF @ \in {"open", "closing"} THEN "dying"
                        ELSE IF @ = "connecting" THEN "aborted"
                        ELSE @]
  /\ UNCHANGED <<state, ws, subscriptions, requestId, reconnectAttempts,
                 config, requests>>

\* the timeout callback of scheduleReconnect: connect(), then the replay
ReconnectFire(t) ==
  /\ UNCHANGED <<now, calls, notWS>>
  /\ t \in Due(timers) /\ t.kind = "reconnect"
  /\ ConnectBody(TRUE)
  /\ IF state \in {"OPEN", "CONNECTING"}
     THEN Replay(state, SockSt(ws), timers \ {t})
     ELSE timers' = timers \ {t} /\ UNCHANGED <<requestId, requests>>
  /\ UNCHANGED <<subscriptions, reconnectAttempts, config>>

\* time passes until the next deadline
Advance ==
  /\ timers # {}
  /\ Due(timers) = {}
  /\ now + MinRem(timers) <= MaxTime
  /\ now' = now + MinRem(timers)
  /\ UNCHANGED <<calls, notWS>>
  /\ timers' = {[t EXCEPT !.rem = @ - MinRem(timers)] : t \in timers}
  /\ UNCHANGED <<state, ws, subscriptions, requestId, reconnectAttempts,
                 config, sockets, requests>>

\* ----------------------------------------------------------- inbound frames
\* the values of e that handleStreamData has a case for, with the callback
\* and the event of each case
Routes ==
  {<<"aggTrade", "onAggTrade", "aggTrade">>,
   <<"trade", "onTrade", "trade">>,
   <<"kline", "onKline", "kline">>,
   <<"24hrMiniTicker", "onMiniTicker", "miniTicker">>,
   <<"24hrTicker", "onTicker", "ticker">>,
   <<"depthUpdate", "onDepthUpdate", "depthUpdate">>,
   <<"outboundAccountPosition", "onAccountUpdate", "accountUpdate">>,
   <<"executionReport", "onExecutionReport", "executionReport">>,
   <<"markPriceUpdate", "onMarkPrice", "markPrice">>,
   <<"forceOrder", "onLiquidation", "liquidation">>,
   <<"ACCOUNT_UPDATE", "onAccountUpdate", "futuresAccountUpdate">>,
   <<"ORDER_TRADE_UPDATE", "onOrderUpdate", "futuresOrderUpdate">>,
   <<"ACCOUNT_CONFIG_UPDATE", "onAccountConfigUpdate",
     "futuresAccountConfigUpdate">>}

KnownTypes == {r[1] : r \in Routes}

Route(e) == CHOOSE r \in Routes : r[1] = e

\* the callbacks a caller can set
Callbacks == {r[2] : r \in Routes} \cup {"onBookTicker", "onError"}

\* the values of e a frame carries: "absent" for none, "other" for one that
\* handleStreamData has no case for
Types == KnownTypes \cup {"absent", "other"}

\* typeof id and id
Ids ==
  {<<"undefined", 0>>, <<"string", 0>>} \cup {<<"number", k>> : k \in 1..MaxId}

\* a frame with no data object
Flat(i, error, e, u, sba) ==
  Frame("value", i[1], i[2], error, e, FALSE, FALSE, "absent", u, sba, FALSE)

\* a frame with a data object
Envelope(i, e, stream, dataE, dataBook) ==
  Frame("value", i[1], i[2], FALSE, e, stream, TRUE, dataE, "absent", FALSE,
        dataBook)

\* the inbound frames: frames that carry no JSON value; flat frames with
\* every e; flat frames with every id; flat frames with every combination
\* of the book ticker fields, and with an id or an e as well; frames with a
\* data object and every data.e, with the book ticker fields inside data,
\* with an e or an id as well; replies that carry an error
Frames ==
  {Blank(k) : k \in {"empty", "invalid", "null"}}
    \cup {Flat(<<"undefined", 0>>, FALSE, e, "absent", FALSE) : e \in Types}
    \cup {Flat(i, FALSE, e, "absent", FALSE) :
            i \in Ids, e \in {"absent", "trade"}}
    \cup {Flat(<<"undefined", 0>>, FALSE, "absent", u, sba) :
            u \in {"absent", "zero", "positive"}, sba \in BOOLEAN}
    \cup {Flat(<<"number", 1>>, FALSE, "absent", "positive", TRUE),
          Flat(<<"undefined", 0>>, FALSE, "trade", "positive", TRUE),
          Flat(<<"undefined", 0>>, FALSE, "other", "positive", TRUE)}
    \cup {Envelope(<<"undefined", 0>>, "absent", TRUE, dataE, FALSE) :
            dataE \in Types}
    \cup {Envelope(<<"undefined", 0>>, "absent", stream, "absent", TRUE) :
            stream \in BOOLEAN}
    \cup {Envelope(<<"undefined", 0>>, "kline", TRUE, "trade", FALSE),
          Envelope(<<"number", 1>>, "absent", TRUE, "trade", FALSE)}
    \cup {Flat(<<"number", k>>, TRUE, "absent", "absent", FALSE) :
            k \in 1..MaxId}

\* callback?.(dataObj) and then this.emit(event, dataObj)
Dispatch(callback, event) ==
  (IF callback \in eventHandlers THEN <<[call |-> callback]>> ELSE <<>>)
    \o <<[emit |-> event]>>

\* handleStreamData: what it calls and emits
handleStreamData(f) ==
  LET eventType == IF f.e # "absent" THEN f.e
                   ELSE IF f.data THEN f.dataE
                   ELSE "absent"
  IN IF eventType \in KnownTypes
     THEN Dispatch(Route(eventType)[2], Route(eventType)[3])
     ELSE IF f.u = "positive" /\ f.sba
     THEN Dispatch("onBookTicker", "bookTicker")
     ELSE <<[emit |-> "data"]>>

\* handleError: onError?.(wsError) and then this.emit('error', wsError)
handleError == Dispatch("onError", "error")

\* a handleMessage that passes on the frames with a numeric id too
handleMessage_forward(f) ==
  IF f.kind = "empty" THEN <<>>
  ELSE IF f.kind \in {"invalid", "null"} THEN handleError
  ELSE handleStreamData(f)

\* handleMessage: what it calls and emits. A blank frame and a frame with
\* a numeric id are dropped; JSON.parse throws on an invalid frame and
\* message.id throws on null, which the catch hands to handleError
handleMessage(f) ==
  IF f.kind = "empty" THEN <<>>
  ELSE IF f.kind \in {"invalid", "null"} THEN handleError
  ELSE IF f.idType = "number" THEN <<>>
  ELSE handleStreamData(f)

\* emit('error') throws when no 'error' listener is attached
Throws(D) ==
  \E i \in DOMAIN D : D[i] = [emit |-> "error"] /\ ~errorListeners

InitFrame ==
  /\ InitWS
  /\ config = Config(<<PING_INTERVAL, PONG_TIMEOUT>>, 1)
  /\ calls = MaxFrameCalls
  /\ eventHandlers \in {{}, Callbacks}
  /\ errorListeners \in BOOLEAN
  /\ frame = Blank("none")
  /\ dispatched = <<>>
  /\ escaped = FALSE
  /\ dateNow = 0
  /\ NoLimiter /\ NoSigner /\ NoRequest

\* ws.on('message') on socket w: handleMessage, registered in connect(),
\* and then the messageHandlers of the requests sent on w
Message(w, f) ==
  /\ w \in DOMAIN sockets
  /\ sockets[w].st = "open"
  /\ f \in Frames
  /\ frame' = f
  /\ dispatched' = handleMessage(f)
  /\ escaped' = Throws(handleMessage(f))
  /\ IF f.kind = "value" /\ f.idType = "number"
     THEN messageHandlers(w, f.id, ~f.error)
     ELSE UNCHANGED <<requests, timers, subscriptions>>
  /\ UNCHANGED <<state, ws, requestId, reconnectAttempts, config, sockets,
                 now, calls>>
  /\ UNCHANGED <<eventHandlers, errorListeners>>
  /\ UNCHANGED <<dateNow, limiter, callers, nonces, http, rest, auth>>

\* ------------------------------------------------------------ RateLimiter
Callers == 1..NumCallers

\* cleanOldRequests(now) applied to the array R
cleanOldRequests(R, t) ==
  SelectSeq(R, LAMBDA timestamp : timestamp > t - limiter.windowMs)

\* a canMakeRequest() that admits one request too many
canMakeRequest_le(R, t) == Len(cleanOldRequests(R, t)) <= limiter.maxRequests

\* the result of canMakeRequest() on the array R at time t
canMakeRequest(R, t) == Len(cleanOldRequests(R, t)) < limiter.maxRequests

RECURSIVE MinOf(_)
\* Math.min(...requests) of a non-empty array
MinOf(R) == IF Len(R) = 1 THEN R[1]
            ELSE LET m == MinOf(Tail(R)) IN IF R[1] < m THEN R[1] ELSE m

\* getTimeUntilReset() on the array R at time t
getTimeUntilReset(R, t) ==
  IF Len(R) = 0 THEN 0
  ELSE LET resetTime == MinOf(R) + limiter.windowMs
       IN IF resetTime - t > 0 THEN resetTime - t ELSE 0

\* this.signatureAuth is set: the constructor of AuthManager creates it only
\* from an API key and a secret
signatureAuth == rest.apiKey /\ rest.apiSecret

hasSignatureAuth == signatureAuth

hasApiKeyAuth == signatureAuth

\* AuthManager.createHeaders(authType): the error it throws, "none" if it
\* returns, and whether the headers it returns carry X-MBX-APIKEY
createHeaders(authType) ==
  CASE authType = "NONE" -> [error |-> "none", apiKeyHeader |-> FALSE]
    [] authType \in {"USER_STREAM", "MARKET_DATA"} ->
         IF ~hasApiKeyAuth
         THEN [error |-> "AuthError", apiKeyHeader |-> FALSE]
         ELSE [error |-> "none", apiKeyHeader |-> TRUE]
    [] authType = "SIGNED" ->
         IF ~hasSignatureAuth
         THEN [error |-> "AuthError", apiKeyHeader |-> FALSE]
         ELSE [error |-> "none", apiKeyHeader |-> TRUE]
    [] OTHER -> [error |-> "ConfigError", apiKeyHeader |-> FALSE]

\* AuthManager.signRequest: the error it throws, "none" if it returns
signRequest == IF ~signatureAuth THEN "AuthError" ELSE "none"

\* the authentication types makeRequest is called with
AuthTypes == {"NONE", "MARKET_DATA", "TRADE", "USER_DATA", "USER_STREAM"}

\* a makeRequest that calls the transport whatever createHeaders and
\* signRequest do
prepare_send(authType) == "transport"

\* makeRequest after the rate limiter: createHeaders, signRequest for the
\* signed types, and then httpClient.request. The result is "transport" if
\* the request is handed to httpClient.request, else the error thrown
prepare(authType) ==
  LET signed == authType \in {"TRADE", "USER_DATA"}
      headers == createHeaders(IF signed THEN "SIGNED" ELSE authType)
  IN IF headers.error # "none" THEN headers.error
     ELSE IF signed /\ signRequest # "none" THEN signRequest
     ELSE "transport"

\* a call that has not started a request
Idle == [pc |-> "idle", wake |-> 0, authType |-> "NONE", outcome |-> "none"]

InitRL ==
  /\ NoClient
  /\ dateNow = 0
  /\ NoSigner /\ NoRequest
  /\ limiter \in {[maxRequests |-> m, windowMs |-> w, requests |-> <<>>] :
                    m \in 1..MaxRequestsCfg, w \in 2..MaxWindowMs}
  /\ callers = [c \in Callers |-> Idle]
  /\ rest = Rest(FALSE, FALSE, FALSE, TRUE)

\* what the rate limiter leaves alone
notRL == <<wsVars, nonces, http, inbound, rest, auth>>

\* makeRequest(authType) up to its first await. With a rate limiter,
\* waitUntilReady() runs canMakeRequest(), which cleans the array, and
\* returns at once or arms the timer; without one the request is prepared and
\* handed to the transport in the same turn
makeRequest(c, authType) ==
  /\ callers[c].pc = "idle"
  /\ IF rest.rateLimiting
     THEN LET R == cleanOldRequests(limiter.requests, dateNow)
              waitTime == getTimeUntilReset(R, dateNow)
          IN /\ limiter' = [limiter EXCEPT !.requests = R]
             /\ callers' = [callers EXCEPT ![c] =
                  IF canMakeRequest(limiter.requests, dateNow) \/ waitTime = 0
                  THEN [pc |-> "ready", wake |-> 0, authType |-> authType,
                        outcome |-> "none"]
                  ELSE [pc |-> "waiting", wake |-> dateNow + waitTime,
                        authType |-> authType, outcome |-> "none"]]
     ELSE /\ UNCHANGED limiter
          /\ callers' = [callers EXCEPT ![c] =
               [pc |-> "idle", wake |-> 0, authType |-> authType,
                outcome |-> prepare(authType)]]
  /\ UNCHANGED <<dateNow, notRL>>

\* the waitUntilReady() of a public request
waitUntilReady(c) == makeRequest(c, "NONE")

\* the timer of waitUntilReady() fires: the promise resolves
WaitDone(c) ==
  /\ callers[c].pc = "waiting"
  /\ callers[c].wake <= dateNow
  /\ callers' = [callers EXCEPT ![c].pc = "ready", ![c].wake = 0]
  /\ UNCHANGED <<dateNow, limiter, notRL>>

\* the continuation of makeRequest() after the await: recordRequest(), and
\* then the request is prepared and handed to the transport
recordRequest(c) ==
  /\ callers[c].pc = "ready"
  /\ limiter' = [limiter EXCEPT !.requests =
                   Append(cleanOldRequests(@, dateNow), dateNow)]
  /\ callers' = [callers EXCEPT ![c].pc = "idle", ![c].wake = 0,
                                ![c].outcome = prepare(callers[c].authType)]
  /\ UNCHANGED <<dateNow, notRL>>

\* FuturesClient.web3SignedRequest up to its await: it throws without Web3
\* credentials, else it awaits signRequest
web3SignedRequest(c) ==
  /\ callers[c].pc = "idle"
  /\ callers' = [callers EXCEPT ![c] =
       IF ~rest.web3
       THEN [pc |-> "idle", wake |-> 0, authType |-> "WEB3",
             outcome |-> "AuthError"]
       ELSE [pc |-> "signing", wake |-> 0, authType |-> "WEB3",
             outcome |-> "none"]]
  /\ UNCHANGED <<dateNow, limiter, notRL>>

\* the continuation of web3SignedRequest: signRequest has returned the signed
\* parameters (ok) and the request is handed to the transport, or it has
\* thrown
web3Signed(c, ok) ==
  /\ callers[c].pc = "signing"
  /\ callers' = [callers EXCEPT ![c].pc = "idle",
                  ![c].outcome = IF ok THEN "transport" ELSE "AuthError"]
  /\ UNCHANGED <<dateNow, limiter, notRL>>

\* a call of canMakeRequest() from outside makeRequest: it cleans the array
callCanMakeRequest ==
  /\ limiter' = [limiter EXCEPT
                   !.requests = cleanOldRequests(@, dateNow)]
  /\ UNCHANGED <<dateNow, callers, notRL>>

\* a millisecond passes: no continuation is waiting to run, no timer is due
TickRL ==
  /\ dateNow < MaxClock
  /\ \A c \in DOMAIN callers :
       /\ callers[c].pc # "ready"
       /\ callers[c].pc = "waiting" => callers[c].wake > dateNow
  /\ dateNow' = dateNow + 1
  /\ UNCHANGED <<limiter, callers, notRL>>

\* a REST client with any credentials, with or without rate limiting, and
\* the calls made on it
InitRest ==
  /\ NoClient
  /\ dateNow = 0
  /\ NoSigner /\ NoRequest
  /\ limiter = [maxRequests |-> 1, windowMs |-> 2, requests |-> <<>>]
  /\ callers = [c \in 1..MaxRestCallers |-> Idle]
  /\ rest \in {Rest(k, s, w, r) : k, s, w, r \in BOOLEAN}

\* ----------------------------------------------------- Web3SignatureAuth
\* a clock of whole seconds
generateNonce_seconds(t) ==
  (t \div MILLISECONDS_IN_SECOND) * MILLISECONDS_IN_SECOND
    * MICROSECONDS_IN_MILLISECOND

\* generateNonce() at Date.now() = t; the product is an integer
generateNonce(t) == t * MICROSECONDS_IN_MILLISECOND

\* a signer that has generated no nonce; auth.readings are the clock
\* readings of its generateNonce() calls, in call order
InitNonce ==
  /\ NoClient
  /\ dateNow = 0
  /\ NoLimiter /\ NoRequest
  /\ nonces = <<>>
  /\ auth = [fn |-> "generateNonce", readings |-> <<>>]

\* generateSignature() takes its nonce
generateSignature ==
  /\ Len(nonces) < MaxNonces
  /\ nonces' = Append(nonces, generateNonce(dateNow))
  /\ auth' = [auth EXCEPT !.readings = Append(@, dateNow)]
  /\ UNCHANGED <<wsVars, dateNow, limiter, callers, http, inbound, rest>>

\* a millisecond passes
TickNonce ==
  /\ dateNow < MaxClock
  /\ dateNow' = dateNow + 1
  /\ UNCHANGED <<wsVars, limiter, callers, nonces, http, inbound, rest, auth>>

\* ------------------------------------------------- static validation methods
\* A string is the sequence of its characters.
\* the characters the class [a-fA-F0-9] matches
HexDigits ==
  {"0", "1", "2", "3", "4", "5", "6", "7", "8", "9",
   "a", "b", "c", "d", "e", "f", "A", "B", "C", "D", "E", "F"}

\* the strings the validation methods are called with: a prefix, a run of
\* characters and a suffix.  A run is n hexadecimal characters, or the same
\* with the character in the middle replaced by one that is not
\* hexadecimal; its length is 0 or around one of the required lengths.
Strings ==
  LET cycle == <<"4", "f", "D", "0", "a", "9", "E", "b">>
      HexRun(n) == [i \in 1..n |-> cycle[(i % Len(cycle)) + 1]]
      Spoiled(n) == [HexRun(n) EXCEPT ![(n + 1) \div 2] = "G"]
      RunLengths ==
        {0} \cup ((ETHEREUM_ADDRESS_LENGTH - Slack)..(ETHEREUM_ADDRESS_LENGTH + Slack))
            \cup ((PRIVATE_KEY_LENGTH - Slack)..(PRIVATE_KEY_LENGTH + Slack))
      prefixes == {<<>>, <<"0", "x">>, <<"0", "X">>}
      suffixes == {<<>>, <<"g">>, <<" ">>}
      runs == {HexRun(n) : n \in RunLengths}
                \cup {Spoiled(n) : n \in RunLengths \ {0}}
  IN  {p \o r \o x : p \in prefixes, r \in runs, x \in suffixes}

\* new RegExp(`^<prefix>[a-fA-F0-9]{<n>}`).test(s): s starts with the prefix
\* followed by n hexadecimal characters
test(prefix, n, s) ==
  /\ Len(s) >= Len(prefix) + n
  /\ SubSeq(s, 1, Len(prefix)) = prefix
  /\ \A i \in 1..n : s[Len(prefix) + i] \in HexDigits

addressRegex(s) == test(<<"0", "x">>, ETHEREUM_ADDRESS_LENGTH, s)

validateAddresses(userAddress, signerAddress) ==
  addressRegex(userAddress) /\ addressRegex(signerAddress)

withoutPrefixRegex(s) == test(<<>>, PRIVATE_KEY_LENGTH, s)

withPrefixRegex(s) == test(<<"0", "x">>, PRIVATE_KEY_LENGTH, s)

validatePrivateKey(privateKey) ==
  withoutPrefixRegex(privateKey) \/ withPrefixRegex(privateKey)

\* a caller about to validate the strings a and b
InitValid ==
  /\ NoClient
  /\ dateNow = 0
  /\ NoLimiter /\ NoRequest
  /\ nonces = <<>>
  /\ auth \in {[fn |-> "pending", a |-> a, b |-> b, result |-> FALSE] :
                 a, b \in Strings}

notAuth == <<wsVars, dateNow, limiter, callers, nonces, http, inbound, rest>>

\* Web3SignatureAuth.validateAddresses(a, b)
callValidateAddresses ==
  /\ auth.fn = "pending"
  /\ auth' = [auth EXCEPT !.fn = "validateAddresses",
                          !.result = validateAddresses(auth.a, auth.b)]
  /\ UNCHANGED notAuth

\* Web3SignatureAuth.validatePrivateKey(a)
callValidatePrivateKey ==
  /\ auth.fn = "pending"
  /\ auth' = [auth EXCEPT !.fn = "validatePrivateKey",
                          !.result = validatePrivateKey(auth.a)]
  /\ UNCHANGED notAuth

\* ----------------------------------------------------------- SignatureAuth
\* the UTF-16 code unit of a character
codeUnit(c) ==
  CASE c = "%" -> 37 [] c = "/" -> 47 [] c = "2" -> 50 [] c = "B" -> 66
    [] c = "F" -> 70 [] c = "Z" -> 90 [] c = "a" -> 97 [] c = "b" -> 98

\* the primary collation weight of a character: its letter, whatever the
\* case; punctuation comes before the letters
primary(c) ==
  CASE c = "/" -> 1 [] c = "a" -> 2 [] c \in {"b", "B"} -> 3 [] c = "Z" -> 4

\* the tertiary collation weight of a character: lower case comes first
tertiary(c) == IF c \in {"B", "Z"} THEN 1 ELSE 0

\* -1, 0 or 1 as the sequence of numbers a is before, equal to or after b,
\* lexicographically
compare(a, b) ==
  LET n == IF Len(a) < Len(b) THEN Len(a) ELSE Len(b)
      D == {i \in 1..n : a[i] # b[i]}
      d == CHOOSE i \in D : \A j \in D : i <= j
  IN  IF D # {} THEN (IF a[d] < b[d] THEN -1 ELSE 1)
      ELSE IF Len(a) < Len(b) THEN -1
      ELSE IF Len(a) > Len(b) THEN 1
      ELSE 0

\* a.localeCompare(b): with the ICU collator the primary weights decide,
\* then the tertiary ones; a build without Intl compares the code units
localeCompare(collator, a, b) ==
  LET codeUnits(s) == [i \in 1..Len(s) |-> codeUnit(s[i])]
      primaries(s) == [i \in 1..Len(s) |-> primary(s[i])]
      tertiaries(s) == [i \in 1..Len(s) |-> tertiary(s[i])]
  IN  IF collator = "codeunit" THEN compare(codeUnits(a), codeUnits(b))
      ELSE IF compare(primaries(a), primaries(b)) # 0
      THEN compare(primaries(a), primaries(b))
      ELSE compare(tertiaries(a), tertiaries(b))

RECURSIVE encodeURIComponent(_)
\* encodeURIComponent(s): '/' is escaped, letters are kept
encodeURIComponent(s) ==
  IF s = <<>> THEN <<>>
  ELSE (IF Head(s) = "/" THEN <<"%", "2", "F">> ELSE <<Head(s)>>)
         \o encodeURIComponent(Tail(s))

\* the keys of the parameter mappings
ParamKeys == {<<"a">>, <<"B">>, <<"Z">>, <<"a", "B">>, <<"a", "b">>, <<"a", "/">>}

\* the values of the parameter mappings: typeof and String(value)
ParamValues ==
  {<<"undefined", <<>>>>, <<"null", <<>>>>, <<"string", <<>>>>,
   <<"string", <<"a", "/", "b">>>>, <<"number", <<"2">>>>, <<"object", <<>>>>}

\* value !== undefined && value !== null && value !== ''
kept(value) ==
  value \notin {<<"undefined", <<>>>>, <<"null", <<>>>>, <<"string", <<>>>>}

\* String(value)
String(value) == value[2]

RECURSIVE sort(_, _)
\* the keys K in the order Array.prototype.sort leaves them in under the
\* comparator localeCompare, which tells any two of these keys apart
sort(collator, K) ==
  IF K = {} THEN <<>>
  ELSE LET first == CHOOSE k \in K :
                      \A l \in K : localeCompare(collator, k, l) <= 0
       IN  <<first>> \o sort(collator, K \ {first})

\* createQueryString(params): the `key=value` pairs that join('&') puts
\* together, in their order; no encoded key or value holds '=' or '&'
createQueryString(collator, params) ==
  LET keys == sort(collator, {k \in DOMAIN params : kept(params[k])})
  IN  [i \in 1..Len(keys) |->
         [key |-> encodeURIComponent(keys[i]),
          value |-> encodeURIComponent(String(params[keys[i]]))]]

\* the parameter mappings
Params ==
  UNION {[K -> ParamValues] :
           K \in {K \in SUBSET ParamKeys : Cardinality(K) <= MaxParams}}

\* a caller about to canonicalize a parameter mapping
InitQuery ==
  /\ NoClient
  /\ dateNow = 0
  /\ NoLimiter /\ NoRequest
  /\ nonces = <<>>
  /\ auth \in {[fn |-> "pending", collator |-> c, params |-> p,
                 result |-> <<>>] : c \in {"icu", "codeunit"}, p \in Params}

\* SignatureAuth.createQueryString(params)
callCreateQueryString ==
  /\ auth.fn = "pending"
  /\ auth' = [auth EXCEPT !.fn = "createQueryString",
                          !.result = createQueryString(auth.collator,
                                                       auth.params)]
  /\ UNCHANGED notAuth

\* ------------------------------------------------- Web3-signed requests
\* A string is the sequence of its characters.  A parameter value is
\* <<typeof, content>>: the characters of a string, the number, the numbers
\* in an array, the key and the number of an object with one property.
RECURSIVE Decimal(_)
\* String(n) for a number n >= 0
Decimal(n) ==
  LET digit == <<"0", "1", "2", "3", "4", "5", "6", "7", "8", "9">>
  IN  IF n < 10 THEN <<digit[n + 1]>>
      ELSE Decimal(n \div 10) \o <<digit[(n % 10) + 1]>>

RECURSIVE join(_, _)
\* items.join(sep)
join(items, sep) ==
  IF items = <<>> THEN <<>>
  ELSE IF Len(items) = 1 THEN items[1]
  ELSE items[1] \o sep \o join(Tail(items), sep)

\* the string s between double quotes
quoted(s) == <<"\"">> \o s \o <<"\"">>

\* the parameter mappings of a caller, with the keys and the values it
\* passes
Web3Params ==
  LET Web3Keys == {"symbol", "recvWindow", "timestamp", "nonce", "ids"}
      Web3Values ==
        {<<"null", 0>>, <<"string", <<>>>>, <<"string", <<"B", "T", "C">>>>,
         <<"string", <<"a", " ", "b">>>>, <<"number", 0>>, <<"number", 7>>,
         <<"array", <<1, 2>>>>, <<"object", <<"k", 1>>>>}
  IN  UNION {[K -> Web3Values] :
               K \in {K \in SUBSET Web3Keys : Cardinality(K) <= MaxParams}}

\* whether a value counts as true
truthy(v) ==
  CASE v[1] = "null" -> FALSE
    [] v[1] = "string" -> v[2] # <<>>
    [] v[1] = "number" -> v[2] # 0
    [] OTHER -> TRUE

\* String(value)
toString(v) ==
  CASE v[1] = "string" -> v[2]
    [] v[1] = "number" -> Decimal(v[2])
    [] v[1] = "array" ->
         join([i \in 1..Len(v[2]) |-> Decimal(v[2][i])], <<",">>)
    [] v[1] = "object" ->
         <<"[", "o", "b", "j", "e", "c", "t", " ", "O", "b", "j", "e", "c",
           "t", "]">>
    [] v[1] = "null" -> <<"n", "u", "l", "l">>

\* value !== null && value !== undefined && value !== ''
present(v) == v[1] # "null" /\ v # <<"string", <<>>>>

\* cleanParams(params): the entries that are not null or undefined
cleanParams(params) ==
  [k \in {k \in DOMAIN params : params[k][1] # "null"} |-> params[k]]

\* the value trimDict leaves for a value: an array becomes the JSON text of
\* its items as strings, an object the JSON text of its properties as
\* strings, anything else String(value)
trimDict(v) ==
  CASE v[1] = "array" ->
         <<"[">> \o join([i \in 1..Len(v[2]) |-> quoted(Decimal(v[2][i]))],
                         <<",">>) \o <<"]">>
    [] v[1] = "object" ->
         <<"{">> \o quoted(<<v[2][1]>>) \o <<":">>
                 \o quoted(Decimal(v[2][2])) \o <<"}">>
    [] OTHER -> toString(v)

\* .replace(/\s/g, '').replace(/'/g, '"') on the JSON text, as it acts on
\* the characters of one string value
canonical(s) ==
  LET kept_ == SelectSeq(s, LAMBDA c : c # " ")
  IN  [i \in 1..Len(kept_) |-> IF kept_[i] = "'" THEN "\"" ELSE kept_[i]]

\* the recvWindow entry generateSignature and signRequest both add
recvWindow(params) ==
  IF "recvWindow" \in DOMAIN params /\ truthy(params["recvWindow"])
  THEN params["recvWindow"]
  ELSE <<"number", DEFAULT_WEB3_RECV_WINDOW>>

\* signParams of generateSignature(params) at Date.now() = t
signParams(params, t) ==
  [k \in DOMAIN params \cup {"timestamp", "recvWindow"} |->
     IF k = "timestamp" THEN <<"number", t>>
     ELSE IF k = "recvWindow" THEN recvWindow(params)
     ELSE params[k]]

\* createSortedJsonString(signParams): the string value the canonical JSON
\* text holds for each of its keys
createSortedJsonString(sp) ==
  [k \in {k \in DOMAIN sp : present(sp[k])} |-> canonical(trimDict(sp[k]))]

\* what generateSignature(params) returns at Date.now() = t; the addresses
\* and the signature are opaque strings
web3Auth(params, t) ==
  [k \in {"user", "signer", "nonce", "signature", "timestamp", "recvWindow"}
     |-> CASE k = "user" -> <<"string", <<"U">>>>
           [] k = "signer" -> <<"string", <<"S">>>>
           [] k = "nonce" -> <<"number", generateNonce(t)>>
           [] k = "signature" -> <<"string", <<"0", "x">>>>
           [] k = "timestamp" -> signParams(params, t)["timestamp"]
           [] k = "recvWindow" -> signParams(params, t)["recvWindow"]]

\* Web3SignatureAuth.signRequest(params): params, then recvWindow, then
\* the fields of web3Auth, each overriding what is before it
signedParams(params, t) ==
  [k \in DOMAIN params \cup DOMAIN web3Auth(params, t) |->
     IF k \in DOMAIN web3Auth(params, t) THEN web3Auth(params, t)[k]
     ELSE params[k]]

\* the string executeRequest appends to the URL for a value
searchParam(v) ==
  CASE v[1] = "array" ->
         join([i \in 1..Len(v[2]) |-> Decimal(v[2][i])], <<",">>)
    [] v[1] = "object" ->
         <<"{">> \o quoted(<<v[2][1]>>) \o <<":">> \o Decimal(v[2][2])
                 \o <<"}">>
    [] OTHER -> toString(v)

\* the parameters web3SignedRequest puts on the wire: the form body of a
\* POST or PUT, the query string of another method
onWire(method, sp) ==
  [k \in {k \in DOMAIN sp : present(sp[k])} |->
     IF method \in {"POST", "PUT"} THEN toString(sp[k])
     ELSE searchParam(sp[k])]

\* a caller about to make a Web3-signed request
InitWeb3 ==
  /\ NoClient
  /\ dateNow \in 1..2
  /\ NoLimiter /\ NoRequest
  /\ nonces = <<>>
  /\ auth \in {[fn |-> "pending", method |-> m, params |-> p,
                signed |-> <<>>, wire |-> <<>>] :
                 m \in {"GET", "POST"}, p \in Web3Params}

\* web3SignedRequest(method, endpoint, params) up to the transport: what
\* the signature covers and what is sent
callWeb3SignedRequest ==
  /\ auth.fn = "pending"
  /\ auth' = [auth EXCEPT
       !.fn = "web3SignedRequest",
       !.signed = createSortedJsonString(
                    signParams(cleanParams(auth.params), dateNow)),
       !.wire = onWire(auth.method,
                       signedParams(cleanParams(auth.params), dateNow))]
  /\ UNCHANGED notAuth

\* -------------------------------------------------------------- HttpClient
\* the status codes the remote side answers with
Statuses == {200, 304, BAD_REQUEST, 404, IM_A_TEAPOT, TOO_MANY_REQUESTS,
             INTERNAL_SERVER_ERROR, 503}

\* the retry-after header of a response: absent, a number of seconds, or an
\* HTTP date
NoRetryAfter == <<"absent", 0>>

RetryAfters ==
  {NoRetryAfter, <<"date", 0>>} \cup {<<"seconds", n>> : n \in 0..MaxRetryAfter}

\* what one fetch() can end in: a response, a TypeError of fetch ("fetch
\* failed"), the abort of the timeout, or any other error thrown on the way.
\* Every status comes without a retry-after header, 429 with every header
\* as well, and 503 with a header of some seconds
Outcomes ==
  {[kind |-> "response", status |-> s, retryAfter |-> NoRetryAfter] :
     s \in Statuses}
    \cup {[kind |-> "response", status |-> TOO_MANY_REQUESTS,
            retryAfter |-> h] : h \in RetryAfters}
    \cup {[kind |-> "response", status |-> 503,
            retryAfter |-> <<"seconds", MaxRetryAfter>>]}
    \cup {[kind |-> k, status |-> 0, retryAfter |-> NoRetryAfter] :
            k \in {"fetchFailed", "aborted", "threw"}}

\* response.ok
Ok(o) == o.kind = "response" /\ o.status >= 200 /\ o.status <= 299

\* getRetryAfter(): undefined without the header, else parseInt(header, 10),
\* which is NaN for a date
getRetryAfter(h) ==
  IF h[1] = "absent" THEN <<"undefined", 0>>
  ELSE IF h[1] = "seconds" THEN <<"number", h[2]>>
  ELSE <<"NaN", 0>>

\* ErrorFactory.fromHttpResponse(statusCode, ..., headers); a RateLimitError
\* keeps getRetryAfter() in retryAfter
fromHttpResponse(statusCode, h) ==
  IF statusCode = TOO_MANY_REQUESTS \/ statusCode = IM_A_TEAPOT
  THEN [class |-> "RateLimitError", statusCode |-> statusCode,
        retryAfter |-> getRetryAfter(h)]
  ELSE [class |-> "ApiResponseError", statusCode |-> statusCode,
        retryAfter |-> <<"undefined", 0>>]

\* the error executeRequest() throws for an outcome that is not ok
thrown(o) ==
  IF o.kind = "response" THEN fromHttpResponse(o.status, o.retryAfter)
  ELSE IF o.kind \in {"fetchFailed", "aborted"}
  THEN [class |-> "NetworkError", statusCode |-> 0,
        retryAfter |-> <<"undefined", 0>>]
  ELSE [class |-> "Error", statusCode |-> 0,
        retryAfter |-> <<"undefined", 0>>]

RECURSIVE Pow(_, _)
\* Math.pow(b, n) for integers
Pow(b, n) == IF n = 0 THEN 1 ELSE b * Pow(b, n - 1)

\* getRetryDelay(error, defaultDelay): error.retryAfter is truthy when it is
\* a number other than 0
getRetryDelay(e, defaultDelay) ==
  IF e.class = "RateLimitError" /\ e.retryAfter[1] = "number"
       /\ e.retryAfter[2] # 0
  THEN e.retryAfter[2] * MILLISECONDS_IN_SECOND
  ELSE defaultDelay

\* the configured <<retryDelay, backoffMultiplier>>
RetryCfgs ==
  {<<DEFAULT_RETRY_DELAY, DEFAULT_BACKOFF_MULTIPLIER>>, <<250, 3>>}

isClientError(e) ==
  e.statusCode >= BAD_REQUEST /\ e.statusCode < INTERNAL_SERVER_ERROR

isServerError(e) == e.statusCode >= INTERNAL_SERVER_ERROR

isRateLimitError(e) ==
  e.statusCode = TOO_MANY_REQUESTS \/ e.statusCode = IM_A_TEAPOT

\* RateLimitError extends ApiResponseError
isApiResponseError(e) == e.class \in {"ApiResponseError", "RateLimitError"}

\* a policy that retries every response error, client errors included
isRetryableError_any(e) ==
  IF isApiResponseError(e) THEN TRUE
  ELSE e.class = "NetworkError"

\* isRetryableError(error)
isRetryableError(e) ==
  IF isApiResponseError(e)
  THEN IF isClientError(e) /\ ~isRateLimitError(e) THEN FALSE
       ELSE isServerError(e) \/ isRateLimitError(e)
  ELSE e.class = "NetworkError"

InitHttp ==
  /\ NoClient
  /\ dateNow = 0
  /\ NoLimiter /\ NoSigner
  /\ http \in {[maxRetries |-> m, retryDelay |-> r[1],
                backoffMultiplier |-> r[2], attempt |-> 0,
                pc |-> "executing", outcomes |-> <<>>, lastError |-> "null",
                delay |-> 0] :
                 m \in 0..MaxRetriesCfg, r \in RetryCfgs}

\* one turn of the loop of request(): executeRequest() ends in outcome o;
\* before a retry, sleep(delay) starts
executeRequest(o) ==
  /\ http.pc = "executing"
  /\ http.attempt <= http.maxRetries
  /\ http' =
       IF Ok(o)
       THEN [http EXCEPT !.pc = "resolved", !.outcomes = Append(@, o)]
       ELSE IF http.attempt = http.maxRetries \/ ~isRetryableError(thrown(o))
       THEN [http EXCEPT !.outcomes = Append(@, o),
                         !.lastError = thrown(o), !.pc = "rejected"]
       ELSE [http EXCEPT
               !.outcomes = Append(@, o),
               !.lastError = thrown(o),
               !.pc = "sleeping",
               !.delay = getRetryDelay(thrown(o),
                           http.retryDelay
                             * Pow(http.backoffMultiplier, http.attempt))]
  /\ UNCHANGED <<wsVars, dateNow, limiter, callers, nonces, inbound, rest, auth>>

\* sleep(delay) is over: attempt++
sleepDone ==
  /\ http.pc = "sleeping"
  /\ http' = [http EXCEPT !.attempt = @ + 1, !.pc = "executing"]
  /\ UNCHANGED <<wsVars, dateNow, limiter, callers, nonces, inbound, rest, auth>>

\* ================================================================ claims
ReconnectTimers(T) == {t \in T : t.kind = "reconnect"}

\* C1: when the socket created by the reconnect timer opens while the
\* subscription set S is non-empty and reconnect is enabled, a SUBSCRIBE
\* request whose stream list equals S is sent on that socket.
ClaimC1 ==
  [][\A w \in DOMAIN sockets :
       (/\ sockets[w].st = "connecting" /\ sockets'[w].st = "open"
        /\ sockets[w].replay /\ w = ws /\ config.reconnect
        /\ subscriptions # {})
       => \E r \in requests' \ requests :
            /\ r.method = "SUBSCRIBE" /\ r.streams = subscriptions
            /\ r.ws = w /\ r.sent]_vars

\* C2: whenever the connection is OPEN and no subscribe/unsubscribe call is
\* pending, the subscription set equals the set the remote side has
\* subscribed on the current socket.
ClaimC2 ==
  (state = "OPEN" /\ \A r \in requests : r.promise # "pending")
    => subscriptions = sockets[ws].subs

\* C3: at every instant the number of recorded request timestamps within
\* the trailing windowMs is at most maxRequests, for every interleaving of
\* concurrent calls that each do waitUntilReady() and then recordRequest().
ClaimC3 ==
  Cardinality({i \in DOMAIN limiter.requests :
                 limiter.requests[i] > dateNow - limiter.windowMs})
    <= limiter.maxRequests

\* C4: a pong timeout that fires and terminates the socket belongs to a ping
\* that has received no pong: every pong received cancels the pong timeout
\* of the pings sent before it.
ClaimC4 ==
  [][\A t \in timers : PongTimeoutFire(t) => t.q > 0]_vars

ClaimC6 ==
  \A i, j \in DOMAIN nonces : i < j => nonces[i] < nonces[j]

\* C7: request() repeats the network call after a failure if and only if
\* the failure is retryable (HTTP 5xx, 429 / 418, or a network-level
\* failure) and fewer than maxRetries retries were made; a call that fails
\* with 503 twice and then succeeds resolves after exactly 2 retries when
\* maxRetries >= 2; a call that fails with a 4xx other than 429 / 418 is
\* attempted exactly once; no call is attempted more than maxRetries + 1
\* times.
TheoremC7 ==
  /\ [][\A o \in Outcomes :
          (executeRequest(o) /\ ~Ok(o)) =>
            LET retryable ==
                  \/ o.kind \in {"fetchFailed", "aborted"}
                  \/ o.kind = "response"
                       /\ (o.status >= 500 \/ o.status \in {429, 418})
            IN /\ http'.pc \in {"sleeping", "rejected"}
               /\ http'.pc = "sleeping" <=>
                    (retryable /\ Len(http.outcomes) < http.maxRetries)]_vars
  /\ [][http.pc = "sleeping" /\ http' # http =>
          /\ http'.pc = "executing"
          /\ http'.outcomes = http.outcomes]_vars
  /\ [][http.pc \in {"resolved", "rejected"} => http' = http]_vars
  /\ [](http.pc = "executing" =>
          http.attempt = Len(http.outcomes) /\ http.attempt <= http.maxRetries)
  /\ []((/\ http.maxRetries >= 2
         /\ Len(http.outcomes) = 3
         /\ http.outcomes[1].status = 503 /\ http.outcomes[2].status = 503
         /\ Ok(http.outcomes[3]))
          => http.pc = "resolved" /\ http.attempt = 2)
  /\ []((/\ Len(http.outcomes) >= 1
         /\ http.outcomes[1].kind = "response"
         /\ http.outcomes[1].status >= 400 /\ http.outcomes[1].status < 500
         /\ http.outcomes[1].status \notin {429, 418})
          => Len(http.outcomes) = 1 /\ http.pc = "rejected")
  /\ [](Len(http.outcomes) <= http.maxRetries + 1)

\* C7 witness: 503, 503, then a success: resolved after two retries
WitnessC7 ==
  /\ http.maxRetries >= 2
  /\ Len(http.outcomes) = 3
  /\ http.outcomes[1].status = 503 /\ http.outcomes[2].status = 503
  /\ Ok(http.outcomes[3])
  /\ http.pc = "resolved" /\ http.attempt = 2

\* C8: disconnect() while OPEN moves to CLOSING and sends a close frame with
\* code 1000 on the socket (unless the socket has already failed), in any
\* other state it moves to CLOSED; a close event moves to CLOSED; and once
\* disconnect() was called no reconnect timer is armed, by the resulting
\* close or by any later one.
ClaimC8 ==
  [][/\ Disconnect =>
          /\ IF state = "OPEN"
             THEN /\ state' = "CLOSING"
                  /\ SockSt(ws) # "dying" =>
                       /\ sockets'[ws].st = "closing"
                       /\ sockets'[ws].closeCode = NORMAL_CLOSURE
             ELSE state' = "CLOSED"
          /\ ~config'.reconnect
     /\ \A w \in DOMAIN sockets : SockClose(w) => state' = "CLOSED"
     /\ ~config.reconnect => ~config'.reconnect
     /\ ~config'.reconnect => ReconnectTimers(timers') = {}]_vars

\* C9: the connection state changes only along the edges CLOSED->CONNECTING,
\* CONNECTING->OPEN, OPEN->CLOSING, CLOSING->CLOSED, CONNECTING->CLOSED and
\* OPEN->CLOSED.
ClaimC9 ==
  [][state' # state =>
       <<state, state'>> \in
         {<<"CLOSED", "CONNECTING">>, <<"CONNECTING", "OPEN">>,
          <<"OPEN", "CLOSING">>, <<"CLOSING", "CLOSED">>,
          <<"CONNECTING", "CLOSED">>, <<"OPEN", "CLOSED">>}]_vars

\* C10: after disconnect() returns, none of the heartbeat, pong-timeout and
\* reconnect timers armed before the call is still armed, so none can fire.
ClaimC10 ==
  [][Disconnect =>
       \A t \in timers' : t.kind \notin {"ping", "pong", "reconnect"}]_vars

\* C11: after disconnect() the subscription set is empty, whatever it held
\* before the call.
ClaimC11 ==
  [][Disconnect => subscriptions' = {}]_vars

\* C12: every request a client sends carries an id greater than every id
\* it sent before, and a reply with id k settles exactly the call issued with
\* id k: with several calls pending and replies in any order, every other
\* call stays as it is and the set changes by the replied call only.
TheoremC12 ==
  /\ [][/\ requestId' >= requestId
        /\ \A x \in requests' :
             (\A y \in requests : y.id # x.id)
               => x.id = requestId /\ requestId' = requestId + 1]_vars
  /\ [](\A x \in requests : x.id < requestId)
  /\ [](\A x, y \in requests : x.id = y.id => x = y)
  /\ [][\A r \in requests, ok \in BOOLEAN :
          ServerReply(r, ok) =>
            /\ requests' = requests \ {r}
            /\ \A t \in timers \ timers' : t.kind = "request" /\ t.req = r.id
            /\ subscriptions' =
                 IF r.promise = "pending" /\ ok
                 THEN IF r.method = "SUBSCRIBE"
                      THEN subscriptions \cup r.streams
                      ELSE subscriptions \ r.streams
                 ELSE subscriptions]_vars

\* C12 witness: the call with id 1 is still pending after the call with
\* id 2 was resolved by its reply
WitnessC12 ==
  /\ requestId = 3
  /\ subscriptions # {}
  /\ \E x \in requests : x.id = 1 /\ x.promise = "pending" /\ x.sent

\* C13: every call that was sent settles: while it is pending its request
\* timeout is armed and due within 10 s, time does not pass a due timeout,
\* the timeout rejects the call, and only its own reply or its own timeout
\* ends a pending call, also across a close of the socket and disconnect().
TheoremC13 ==
  /\ [](\A r \in requests :
          r.promise = "pending" =>
            \E t \in timers : /\ t.kind = "request" /\ t.req = r.id
                              /\ t.rem <= DEFAULT_REQUEST_TIMEOUT)
  /\ [][now' # now => Due(timers) = {}]_vars
  /\ [][\A t \in timers :
          RequestTimeout(t) =>
            \A r \in requests' : r.id = t.req => r.promise = "rejected"]_vars
  /\ [][\A r \in requests :
          (r.promise = "pending" /\ r \notin requests') =>
            \/ \E ok \in BOOLEAN : ServerReply(r, ok)
            \/ \E t \in Due(timers) : t.req = r.id /\ RequestTimeout(t)]_vars

\* C13 witness: the timeout of a call is due after its socket has closed
WitnessC13 ==
  \E r \in requests :
    /\ r.promise = "pending" /\ r.sent
    /\ sockets[r.ws].st = "closed"
    /\ \E t \in Due(timers) : t.kind = "request" /\ t.req = r.id

\* C14: when a socket error event occurs while subscribe / unsubscribe calls
\* are pending on the socket, every such call is rejected by that error.
ClaimC14 ==
  [][\A w \in DOMAIN sockets :
       SockError(w) =>
         \A r \in requests :
           (r.ws = w /\ r.promise = "pending") =>
             \A x \in requests' : x.id = r.id => x.promise = "rejected"]_vars

\* C15: the subscription set changes only when a pending subscribe /
\* unsubscribe call receives its success reply: subscribe then adds exactly
\* the requested streams, unsubscribe removes exactly the requested streams;
\* an error reply, a reply after the timeout and a timeout leave the set
\* unchanged.
TheoremC15 ==
  [][/\ subscriptions' # subscriptions =>
          \E r \in requests : r.promise = "pending" /\ ServerReply(r, TRUE)
     /\ \A r \in requests, ok \in BOOLEAN :
          ServerReply(r, ok) =>
            subscriptions' =
              IF r.promise = "pending" /\ ok
              THEN IF r.method = "SUBSCRIBE"
                   THEN subscriptions \cup r.streams
                   ELSE subscriptions \ r.streams
              ELSE subscriptions
     /\ \A t \in timers : RequestTimeout(t) => subscriptions' = subscriptions]_vars

\* C15 witness: two calls were answered and the set holds the one stream
\* the remote side has subscribed
WitnessC15 ==
  /\ state = "OPEN" /\ requestId = 3 /\ requests = {}
  /\ subscriptions = {"a"} /\ sockets[ws].subs = {"a"}

\* C16: subscribe() or unsubscribe() called while the state is not OPEN
\* rejects with the 'not connected' error, sends no frame and leaves the
\* subscription set unchanged.
ClaimC16 ==
  [][\A S \in StreamArrays :
       /\ (Subscribe(S) /\ state # "OPEN") =>
            /\ callError("SUBSCRIBE", S, state) = "not connected"
            /\ UNCHANGED <<requests, requestId, subscriptions, sockets>>
       /\ (Unsubscribe(S) /\ state # "OPEN") =>
            /\ callError("UNSUBSCRIBE", S, state) = "not connected"
            /\ UNCHANGED <<requests, requestId, subscriptions, sockets>>]_vars

\* C17: a subscribe call for which the subscription count plus the number
\* of requested streams exceeds MAX_SUBSCRIPTIONS rejects with the error of
\* the limit before any frame is sent and without changing the set; a call
\* that stays within the limit is not rejected by it.
TheoremC17 ==
  [][\A S \in StreamArrays :
       Subscribe(S) =>
         IF Size(subscriptions) + Size(S) > MAX_SUBSCRIPTIONS
         THEN /\ callError("SUBSCRIBE", S, state) = "max subscriptions"
              /\ UNCHANGED <<requests, requestId, subscriptions, sockets,
                             timers>>
         ELSE /\ callError("SUBSCRIBE", S, state) # "max subscriptions"
              /\ (state = "OPEN" /\ SockSt(ws) = "open") =>
                   \E r \in requests' \ requests :
                     r.method = "SUBSCRIBE" /\ r.streams = S /\ r.sent]_vars

\* C17 witness: the set holds the large batch, and the third call, made
\* while OPEN, sent nothing
WitnessC17 ==
  /\ Size(subscriptions) = BigBatch /\ subscriptions = {"big"}
  /\ state = "OPEN" /\ Len(sockets) = 1
  /\ calls = 0 /\ requestId = 2 /\ requests = {}

\* C18: connect() called while the state is OPEN or CONNECTING creates no
\* socket, leaves the state unchanged and arms no timer.
TheoremC18 ==
  [][(Connect /\ state \in {"OPEN", "CONNECTING"}) =>
       UNCHANGED <<state, ws, sockets, timers>>]_vars

\* C18 witness: the caller has called connect() twice and nothing else, and
\* the client has created one socket
WitnessC18 ==
  /\ calls = MaxCalls - 2 /\ config.reconnect
  /\ Len(sockets) = 1 /\ state \in {"OPEN", "CONNECTING"}

\* C19: every connect() promise settles: once the socket it created has
\* closed, the promise has been resolved by the open or rejected by the
\* error, for every interleaving with disconnect() and the socket events.
ClaimC19 ==
  \A w \in DOMAIN sockets :
    sockets[w].st = "closed" => sockets[w].promise # "pending"

\* C20: an inbound frame whose parsed JSON carries a numeric id invokes no
\* callback and emits no event; all it does is settle the pending request
\* with that id that was sent on the socket, if there is one: the request
\* and its timer go, the subscription set changes as the continuation of
\* that call changes it, and nothing else changes.
TheoremC20 ==
  [][\A w \in DOMAIN sockets :
       (Message(w, frame') /\ frame'.kind = "value"
          /\ frame'.idType = "number")
       => LET hit == {x \in requests : x.ws = w /\ x.id = frame'.id}
              won == {x \in hit : x.promise = "pending" /\ ~frame'.error}
          IN /\ dispatched' = <<>>
             /\ ~escaped'
             /\ requests' = requests \ hit
             /\ timers' = {t \in timers :
                   ~(t.kind = "request" /\ t.req = frame'.id /\ hit # {})}
             /\ subscriptions' =
                  (subscriptions
                     \cup UNION {x.streams :
                                   x \in {y \in won : y.method = "SUBSCRIBE"}})
                    \ UNION {x.streams :
                               x \in {y \in won : y.method = "UNSUBSCRIBE"}}
             /\ UNCHANGED <<state, ws, requestId, reconnectAttempts, config,
                            sockets>>]_vars

\* C20: a frame with the numeric id 1 and e = "trade" has arrived on a client
\* with onTrade set; it settled subscribe call 1, call 2 is still pending,
\* and nothing was called or emitted
WitnessC20 ==
  /\ frame.kind = "value" /\ frame.idType = "number" /\ frame.id = 1
  /\ frame.e = "trade"
  /\ "onTrade" \in eventHandlers
  /\ dispatched = <<>>
  /\ subscriptions # {}
  /\ \A x \in requests : x.id # 1
  /\ \E x \in requests : x.id = 2 /\ x.promise = "pending"

\* C21: an inbound frame that is not valid JSON is reported to onError when
\* it is set, no exception escapes the message handler, and the state, the
\* subscription set and the timers are unchanged, with or without an 'error'
\* listener attached.
ClaimC21 ==
  [][\A w \in DOMAIN sockets :
       (Message(w, frame') /\ frame'.kind = "invalid")
       => /\ ("onError" \in eventHandlers
                => \E i \in DOMAIN dispatched' :
                     dispatched'[i] = [call |-> "onError"])
          /\ ~escaped'
          /\ UNCHANGED <<state, subscriptions, timers>>]_vars

\* C22: a data frame whose e, at top level or inside data, is a known type
\* invokes the callback of that type, if it is set, emits the event of that
\* type, and does nothing else; a data frame whose e is not a known type is
\* emitted as 'data' and invokes no callback.
ClaimC22 ==
  [][\A w \in DOMAIN sockets :
       (Message(w, frame') /\ frame'.kind = "value"
          /\ frame'.idType # "number")
       => LET e == IF frame'.e # "absent" THEN frame'.e
                   ELSE IF frame'.data THEN frame'.dataE
                   ELSE "absent"
          IN /\ e \in KnownTypes
                  => \E r \in Routes :
                       /\ r[1] = e
                       /\ dispatched' =
                            IF r[2] \in eventHandlers
                            THEN <<[call |-> r[2]], [emit |-> r[3]]>>
                            ELSE <<[emit |-> r[3]]>>
             /\ e = "other" => dispatched' = <<[emit |-> "data"]>>]_vars

\* C23: a frame with no e that carries u, s, b and a, at top level or inside
\* the data of an envelope, whatever their values, goes to the book ticker
\* handler: onBookTicker is called if it is set, 'bookTicker' is emitted,
\* and 'data' is not.
ClaimC23 ==
  [][\A w \in DOMAIN sockets :
       (/\ Message(w, frame')
        /\ frame'.kind = "value" /\ frame'.idType # "number"
        /\ frame'.e = "absent"
        /\ frame'.data => frame'.dataE = "absent"
        /\ \/ frame'.u # "absent" /\ frame'.sba
           \/ frame'.data /\ frame'.dataBook)
       => dispatched' =
            IF "onBookTicker" \in eventHandlers
            THEN <<[call |-> "onBookTicker"], [emit |-> "bookTicker"]>>
            ELSE <<[emit |-> "bookTicker"]>>]_vars

\* C24: whenever a waitUntilReady() call resolves, at once or when its timer
\* fires, canMakeRequest() is true at that moment, whatever the other
\* callers have recorded meanwhile.
ClaimC24 ==
  [][\A c \in Callers :
       (\/ WaitDone(c)
        \/ waitUntilReady(c) /\ callers'[c].pc = "ready")
       => canMakeRequest(limiter'.requests, dateNow')]_vars

\* C25: with rate limiting enabled, every request that reaches the transport
\* has waited on the rate limiter and is recorded in it: the step that hands
\* it to the transport is the continuation of its waitUntilReady() and
\* appends its timestamp to the limiter's array.
ClaimC25 ==
  [][\A c \in DOMAIN callers :
       (/\ rest.rateLimiting
        /\ callers'[c] # callers[c]
        /\ callers'[c].outcome = "transport")
       => /\ callers[c].pc = "ready"
          /\ limiter'.requests =
               Append(cleanOldRequests(limiter.requests, dateNow), dateNow)]_vars

\* C26: the wait before retry number k is retryDelay x backoffMultiplier^k,
\* except after a rate-limit error (429 / 418) whose response has a
\* retry-after header of n seconds, where the wait is n x 1000 milliseconds,
\* for every n.
ClaimC26 ==
  [][\A o \in Outcomes :
       (executeRequest(o) /\ http'.pc = "sleeping")
       => http'.delay =
            IF o.status \in {TOO_MANY_REQUESTS, IM_A_TEAPOT}
                 /\ o.retryAfter[1] = "seconds"
            THEN o.retryAfter[2] * 1000
            ELSE IF o.retryAfter[1] = "date" THEN http'.delay
            ELSE http.retryDelay
                   * Pow(http.backoffMultiplier, http.attempt)]_vars

\* C27: when creating the auth headers or signing the parameters of a
\* request fails, the request ends in the AuthError and the transport is not
\* invoked for it; so a request that reached the transport has the
\* credentials its authentication type needs.
TheoremC27 ==
  /\ [][\A c \in DOMAIN callers :
          LET t == callers'[c].authType
              signed == t \in {"TRADE", "USER_DATA"}
              fails == \/ createHeaders(IF signed THEN "SIGNED" ELSE t).error
                            = "AuthError"
                       \/ signed /\ signRequest = "AuthError"
          IN /\ (recordRequest(c) /\ fails)
                  => callers'[c].outcome = "AuthError"
             /\ (~rest.rateLimiting /\ fails /\ t \in AuthTypes
                   /\ makeRequest(c, t))
                  => callers'[c].outcome = "AuthError"
             /\ (web3SignedRequest(c) /\ ~rest.web3)
                  => callers'[c].outcome = "AuthError"
             /\ web3Signed(c, FALSE) => callers'[c].outcome = "AuthError"]_vars
  /\ [](\A c \in DOMAIN callers :
          callers[c].outcome = "transport"
          => /\ callers[c].authType \in {"MARKET_DATA", "USER_STREAM", "TRADE",
                                         "USER_DATA"}
                  => rest.apiKey /\ rest.apiSecret
             /\ callers[c].authType = "WEB3" => rest.web3)

\* C27: a signed request on a client with an API key and no secret has waited
\* for the rate limiter's window, was recorded and ended in the AuthError
WitnessC27 ==
  /\ rest.apiKey /\ ~rest.apiSecret /\ rest.rateLimiting
  /\ callers[1].authType = "TRADE" /\ callers[1].outcome = "AuthError"
  /\ Len(limiter.requests) > 0
  /\ dateNow >= limiter.windowMs

\* C28: canMakeRequest() is true exactly when fewer than maxRequests recorded
\* requests have timestamps within the last windowMs. The array loses only
\* timestamps that have left the window and gains only the timestamp of a
\* recordRequest(); so with maxRequests timestamps inside the window the
\* result is false, and once every timestamp is older than windowMs it is
\* true again.
TheoremC28 ==
  /\ [](canMakeRequest(limiter.requests, dateNow)
          <=> Cardinality({i \in DOMAIN limiter.requests :
                             dateNow - limiter.requests[i] < limiter.windowMs})
                < limiter.maxRequests)
  /\ [][\A t \in 0..MaxClock :
          LET old == Cardinality({i \in DOMAIN limiter.requests :
                                    limiter.requests[i] = t})
              new == Cardinality({i \in DOMAIN limiter'.requests :
                                    limiter'.requests[i] = t})
          IN /\ new < old => dateNow - t >= limiter.windowMs
             /\ new > old
                  => /\ t = dateNow /\ new = old + 1
                     /\ \E c \in Callers : recordRequest(c)
             /\ (\E c \in Callers : recordRequest(c)) /\ t = dateNow
                  => new = old + 1]_vars
  /\ []((\A i \in DOMAIN limiter.requests :
           dateNow - limiter.requests[i] > limiter.windowMs)
          => canMakeRequest(limiter.requests, dateNow))

\* C28: maxRequests = 2 requests were recorded at time 0, which made
\* canMakeRequest() false, and more than windowMs has passed since: the
\* array still holds them and canMakeRequest() is true again
WitnessC28 ==
  /\ limiter.maxRequests = 2
  /\ limiter.requests = <<0, 0>>
  /\ ~canMakeRequest(limiter.requests, 0)
  /\ dateNow > limiter.windowMs
  /\ canMakeRequest(limiter.requests, dateNow)

\* C29: canMakeRequest() is a pure query: a call of it changes the result of
\* no later canMakeRequest(), getTimeUntilReset() or waitUntilReady().
ClaimC29 ==
  [][callCanMakeRequest
       => /\ canMakeRequest(limiter'.requests, dateNow)
               = canMakeRequest(limiter.requests, dateNow)
          /\ getTimeUntilReset(limiter'.requests, dateNow)
               = getTimeUntilReset(limiter.requests, dateNow)]_vars

\* C30: createHeaders fails with AuthError exactly when the credentials the
\* tier needs are absent: for MARKET_DATA and USER_STREAM if and only if no
\* API key is configured, for SIGNED if and only if the key or the secret is
\* missing, for NONE never; and when it succeeds for a keyed tier the headers
\* carry X-MBX-APIKEY. Stated of every createHeaders call of a request.
ClaimC30 ==
  [][\A c \in DOMAIN callers :
       (\/ recordRequest(c)
        \/ ~rest.rateLimiting /\ callers'[c].authType \in AuthTypes
             /\ makeRequest(c, callers'[c].authType))
       => LET a == callers'[c].authType
              t == IF a \in {"TRADE", "USER_DATA"} THEN "SIGNED" ELSE a
              h == createHeaders(t)
          IN /\ t = "NONE" => h.error = "none"
             /\ t \in {"MARKET_DATA", "USER_STREAM"}
                  => (h.error = "AuthError" <=> ~rest.apiKey)
             /\ t = "SIGNED"
                  => (h.error = "AuthError"
                        <=> ~(rest.apiKey /\ rest.apiSecret))
             /\ (t # "NONE" /\ h.error = "none") => h.apiKeyHeader]_vars

\* C31: validatePrivateKey(key) returns true if and only if key is exactly
\* 64 hexadecimal characters, optionally preceded by '0x' (so that 63 or 65
\* hexadecimal characters are rejected).
ClaimC31 ==
  LET IsHex(s) == \A i \in 1..Len(s) : s[i] \in HexDigits
      key == auth.a
  IN  auth.fn = "validatePrivateKey" =>
        (auth.result <=>
           \/ Len(key) = PRIVATE_KEY_LENGTH /\ IsHex(key)
           \/ /\ Len(key) = PRIVATE_KEY_LENGTH + 2
              /\ SubSeq(key, 1, 2) = <<"0", "x">>
              /\ IsHex(SubSeq(key, 3, Len(key))))

\* C32: validateAddresses(user, signer) returns true if and only if both
\* strings are '0x' followed by exactly 40 hexadecimal characters.
ClaimC32 ==
  LET IsAddress(s) ==
        /\ Len(s) = ETHEREUM_ADDRESS_LENGTH + 2
        /\ SubSeq(s, 1, 2) = <<"0", "x">>
        /\ \A i \in 3..Len(s) : s[i] \in HexDigits
  IN  auth.fn = "validateAddresses" =>
        (auth.result <=> IsAddress(auth.a) /\ IsAddress(auth.b))

\* C33: for every parameter mapping, the HMAC canonical query string lists
\* its keys in non-decreasing lexicographic order by raw string comparison
\* (by code units) and contains no entry whose value was null, undefined or
\* the empty string.
ClaimC33 ==
  auth.fn = "createQueryString" =>
    /\ \A i \in 1..(Len(auth.result) - 1) :
         LET units(s) == [j \in 1..Len(s) |-> codeUnit(s[j])]
         IN  compare(units(auth.result[i].key),
                     units(auth.result[i + 1].key)) <= 0
    /\ \A k \in DOMAIN auth.params :
         auth.params[k] \in {<<"undefined", <<>>>>, <<"null", <<>>>>,
                             <<"string", <<>>>>}
           => \A i \in 1..Len(auth.result) :
                auth.result[i].key # encodeURIComponent(k)

\* C34: for sequential nonce generations whose clock readings are at least
\* 1 ms apart the nonces are strictly increasing, and each nonce is the
\* millisecond clock reading times 1000, so that a 1 ms advance raises the
\* nonce by exactly 1000.
TheoremC34 ==
  auth.fn = "generateNonce" =>
    /\ Len(auth.readings) = Len(nonces)
    /\ \A i \in DOMAIN nonces : nonces[i] = auth.readings[i] * 1000
    /\ \A i, j \in DOMAIN nonces :
         /\ (i < j /\ auth.readings[j] >= auth.readings[i] + 1)
              => nonces[i] < nonces[j]
         /\ (i < j /\ auth.readings[j] = auth.readings[i] + 1)
              => nonces[j] = nonces[i] + 1000

\* C34 witness: three nonces generated, the second 1 ms and the third more
\* than 1 ms after the one before
WitnessC34 ==
  /\ auth.fn = "generateNonce"
  /\ Len(nonces) = 3
  /\ auth.readings[2] = auth.readings[1] + 1
  /\ auth.readings[3] > auth.readings[2] + 1
  /\ nonces[1] < nonces[2] /\ nonces[2] < nonces[3]

\* C35: automatic reconnection uses exponential backoff: after consecutive
\* failed attempts, the delay before each reconnect attempt is the previous
\* delay multiplied by a constant factor greater than 1.  So when the socket
\* of a reconnect attempt closes without having opened and the close arms
\* the next reconnect timer, that timer's delay is a multiple, by more than
\* 1, of the delay the failed attempt was armed with.
ClaimC35 ==
  [][\A w \in DOMAIN sockets :
       (/\ SockClose(w)
        /\ sockets[w].after > 0
        /\ sockets[w].promise # "resolved"
        /\ reconnectAttempts' = reconnectAttempts + 1)
         => \A t \in ReconnectTimers(timers') :
              t.held => t.delay > sockets[w].after]_vars

\* C37: in every reachable state the subscription set holds at most
\* MAX_SUBSCRIPTIONS (1024) streams, also when several subscribe calls are
\* pending at the same time.
ClaimC37 == Size(subscriptions) <= 1024

\* C38: whenever a connect() promise resolves, the state is OPEN at that
\* moment: when the socket of the call opens, and also when the call was
\* made while an earlier connect() is still CONNECTING, by the caller or by
\* the reconnect timer.
ClaimC38 ==
  [][/\ \A w \in DOMAIN sockets :
          (SockOpen(w) /\ sockets'[w].promise = "resolved") => state' = "OPEN"
     /\ (Connect /\ resolvesAtOnce) => state' = "OPEN"
     /\ \A t \in timers :
          (ReconnectFire(t) /\ resolvesAtOnce) => state' = "OPEN"]_vars

\* C39: at any time at most one socket the client created is connecting or
\* open, and the events (open, error, close, pong) of a socket the client
\* has given up on, one that is no longer this.ws, never change the client's
\* state, timers or reconnect counter.
ClaimC39 ==
  [][/\ Cardinality({w \in DOMAIN sockets' :
                       sockets'[w].st \in {"connecting", "open"}}) <= 1
     /\ \A w \in DOMAIN sockets :
          (/\ w # ws
           /\ SockOpen(w) \/ SockError(w) \/ SockClose(w) \/ SockPong(w))
            => UNCHANGED <<state, timers, reconnectAttempts>>]_vars

\* C40: for every Web3-signed futures request, each parameter key sent on
\* the wire carries the string value the signature covers (that of the
\* canonical JSON that was hashed), and every signed key is sent, whatever
\* the caller's parameter mapping: also with keys named nonce, user, signer
\* or signature and with array- or object-valued parameters.
ClaimC40 ==
  auth.fn = "web3SignedRequest" =>
    /\ \A k \in DOMAIN auth.signed :
         k \in DOMAIN auth.wire /\ auth.wire[k] = auth.signed[k]
    /\ \A k \in DOMAIN auth.wire \ {"user", "signer", "nonce", "signature"} :
         k \in DOMAIN auth.signed /\ auth.wire[k] = auth.signed[k]

NextConn ==
  \/ Connect
  \/ Disconnect
  \/ \E w \in DOMAIN sockets : SockOpen(w)
  \/ \E w \in DOMAIN sockets : SockError(w)
  \/ \E w \in DOMAIN sockets : SockClose(w)
  \/ \E w \in DOMAIN sockets : SockPong(w)
  \/ \E t \in timers : PingFire(t)
  \/ \E t \in timers : PongTimeoutFire(t)
  \/ \E t \in timers : ReconnectFire(t)
  \/ Advance

NextSub ==
  \/ Connect
  \/ Disconnect
  \/ \E S \in StreamArrays : Subscribe(S)
  \/ \E S \in StreamArrays : Unsubscribe(S)
  \/ \E w \in DOMAIN sockets : SockOpen(w)
  \/ \E w \in DOMAIN sockets : SockError(w)
  \/ \E w \in DOMAIN sockets : SockClose(w)
  \/ \E r \in requests, ok \in BOOLEAN : ServerReply(r, ok)
  \/ \E t \in timers : RequestTimeout(t)
  \/ \E t \in timers : ReconnectFire(t)
  \/ Advance

NextLimit ==
  \/ Connect
  \/ Disconnect
  \/ \E S \in LimitArrays : Subscribe(S)
  \/ \E S \in LimitArrays : Unsubscribe(S)
  \/ \E w \in DOMAIN sockets : SockOpen(w)
  \/ \E w \in DOMAIN sockets : SockError(w)
  \/ \E w \in DOMAIN sockets : SockClose(w)
  \/ \E r \in requests, ok \in BOOLEAN : ServerReply(r, ok)
  \/ \E t \in timers : RequestTimeout(t)
  \/ \E t \in timers : ReconnectFire(t)
  \/ Advance

\* the client of a caller that subscribes up to the limit
SpecLimit == InitLimit /\ [][NextLimit]_vars

NextFrame ==
  \/ Connect
  \/ \E S \in StreamArrays : Subscribe(S)
  \/ \E S \in StreamArrays : Unsubscribe(S)
  \/ \E w \in DOMAIN sockets : SockOpen(w)
  \/ \E w \in DOMAIN sockets, f \in Frames : Message(w, f)

\* the connection of a caller that never subscribes, with a fast heartbeat
SpecConn == InitConn /\ [][NextConn]_vars

\* the first MaxTime milliseconds of a connection with the default heartbeat
SpecSub == InitSub /\ [][NextSub]_vars

\* the connection of a client that reconnects more than once
SpecBackoff == InitBackoff /\ [][NextConn]_vars

\* a connected client on which frames arrive
SpecFrame == InitFrame /\ [][NextFrame]_vars

NextRest ==
  \/ \E c \in DOMAIN callers, a \in AuthTypes : makeRequest(c, a)
  \/ \E c \in DOMAIN callers : WaitDone(c)
  \/ \E c \in DOMAIN callers : recordRequest(c)
  \/ \E c \in DOMAIN callers : web3SignedRequest(c)
  \/ \E c \in DOMAIN callers, ok \in BOOLEAN : web3Signed(c, ok)
  \/ TickRL

\* the requests of the callers of one REST client
SpecRest == InitRest /\ [][NextRest]_vars

NextRL ==
  \/ callCanMakeRequest
  \/ \E c \in Callers : waitUntilReady(c)
  \/ \E c \in Callers : WaitDone(c)
  \/ \E c \in Callers : recordRequest(c)
  \/ TickRL

NextNonce == generateSignature \/ TickNonce

NextHttp ==
  \/ \E o \in Outcomes : executeRequest(o)
  \/ sleepDone

\* concurrent makeRequest() calls on one client with rate limiting enabled
SpecRL == InitRL /\ [][NextRL]_vars

\* the calls of generateSignature() on one signer
SpecNonce == InitNonce /\ [][NextNonce]_vars

\* one call of HttpClient.request
SpecHttp == InitHttp /\ [][NextHttp]_vars

NextValid == callValidateAddresses \/ callValidatePrivateKey

\* the static validation methods of Web3SignatureAuth
SpecValid == InitValid /\ [][NextValid]_vars

NextQuery == callCreateQueryString

\* the canonical query string of SignatureAuth
SpecQuery == InitQuery /\ [][NextQuery]_vars

NextWeb3 == callWeb3SignedRequest

\* the parameters of a Web3-signed request
SpecWeb3 == InitWeb3 /\ [][NextWeb3]_vars
====
